---- MODULE Spec2Model ----
(***************************************************************************)
(* Wareflow EMS: the migration runner.                                     *)
(*                                                                         *)
(* MigrationManager.check_and_migrate / _perform_migration                 *)
(* (src/database/migration_manager.py) and the updater's run_migrations    *)
(* (src/cli/update.py), over the migration ledger and the stored           *)
(* application version.                                                    *)
(*                                                                         *)
(* The ledger helpers (database/migration_model.py), the runner helpers    *)
(* (database/migrations/base.py) and the version table                     *)
(* (database/version_model.py) are modelled from the specification.        *)
(* A run is modelled step by step: one action per stage of the loop body.  *)
(***************************************************************************)
EXTENDS Integers, Sequences, FiniteSets, TLC

\* ------------------------------------------------------------------ bounds
\* Number of runs (check_and_migrate or run_migrations calls) explored.
MaxRuns == 3

\* Number of BackupScheduler objects created.
MaxSchedulers == 2

\* Last minute of the wall clock, and the steps by which it advances.
MaxTime == 70
TickSteps == {10, 20}

\* record_failed_login() calls explored on one row.
MaxAttempts == 6

\* store_document() calls explored, and the explicit versions passed to it.
MaxStores == 3
MaxVersion == 2

\* navigate() calls explored.
MaxNav == 4

\* Largest retention setting (max_backups, keep_count) explored.
MaxKeep == 3

\* Events written to the backup log.
MaxEvents == 4

\* Recorded names kept for comparison.
MaxNamed == 3

\* ------------------------------------------------------- program constants
APP_VERSION == "0.1.0"

\* Versions a database file can carry when the application starts:
\* no version row, the version of an older release, the current version.
StoredVersions == {"none", "0.0.9", APP_VERSION}

\* The migration definitions found in the migrations directory.  A name is
\* a string, modelled as the sequence of its character codes so that the
\* lexicographic order of names is computed, not assumed.
Discovered ==
    { [name |-> <<1>>,    hasName |-> TRUE, hasPre |-> TRUE,  hasPost |-> TRUE],
      [name |-> <<1, 2>>, hasName |-> TRUE, hasPre |-> TRUE,  hasPost |-> FALSE],
      [name |-> <<2>>,    hasName |-> TRUE, hasPre |-> FALSE, hasPost |-> TRUE] }

\* migrations/20260128_140000_fix_contracts_typo.py: class Migration defines
\* up() and down() only, no name and no checks.  The name field carries the
\* file name of the module, which sorts between the first two definitions.
FixContractsTypo ==
    [name |-> <<1, 1>>, hasName |-> FALSE, hasPre |-> FALSE, hasPost |-> FALSE]

\* The migration objects a pending list handed to _perform_migration can hold.
MigrationObjects == Discovered \cup { FixContractsTypo }

NoName == << >>

VARIABLES
    ledger,       \* the migrations table: sequence of rows [name, batch, run]
    appVersion,   \* latest app_version row, "none" when the table is empty
    pc,           \* position of the running call, "idle" between calls
    kind,         \* "manager" (check_and_migrate) or "cli" (run_migrations)
    auto,         \* auto_migrate argument of the current / last call
    pending,      \* pending_migrations of the current run
    idx,          \* loop index i (1-based) into pending
    batch,        \* batch number of the current run
    log,          \* calls made by the current / last run, in order
    result,       \* (success, message) of the last finished call
    upOk,         \* history: names whose up() has returned normally
    runs,         \* number of calls started so far
    startLedger,  \* history: the ledger when the current run started
    prevResult    \* history: the result of the call before the current one

\* BackupService (utils/backup_service.py) and its scheduler thread.
VARIABLES
    enabled,        \* config "enabled"
    scheduler,      \* self.scheduler: 0 for None, else the id of the object
    threads,        \* ids of the scheduler objects whose thread is running
    created,        \* number of BackupScheduler objects created so far
    schedBackup,    \* id of the scheduler thread that is copying, 0 if none
    schedOut        \* outcome of the last start_scheduler()/stop_scheduler()

migVars == << ledger, appVersion, pc, kind, auto, pending, idx, batch, log,
              result, upOk, runs, startLedger, prevResult >>

schedVars == << enabled, scheduler, threads, created, schedBackup, schedOut >>

\* The wall clock (minutes) read by datetime.now().
VARIABLES now

\* auth/models.py User row and auth/authentication.py AuthenticationService.
VARIABLES
    user,           \* [failed_login_attempts, locked_until, is_active]
    current_user,   \* AuthenticationService.current_user: 0 for None, 1 the user
    authOut,        \* the last authenticate()/login() call and its outcome
    failCount,      \* history: record_failed_login() calls since the last reset
    lastFailAt      \* history: time of the last record_failed_login() call

authVars == << user, current_user, authOut, failCount, lastFailAt >>

\* auth/session.py SessionManager.
VARIABLES
    timeout_minutes,  \* SessionManager.timeout_minutes
    current_session,  \* SessionManager.current_session
    sessOpen,         \* history: a session was created and not ended since
    sessActive,       \* history: time of the last create_session() or refresh
    sessOut           \* the last SessionManager call and its outcome

sessVars == << timeout_minutes, current_session, sessOpen, sessActive, sessOut >>

\* utils/file_storage.py DocumentStorageManager, one employee folder.
VARIABLES
    folder,         \* the metadata files of the folder: [path, file_name, version]
    stores,         \* number of store_document() calls so far
    storeOut,       \* the last store_document() call and its outcome
    histOut         \* the last get_document_history() call and its outcome

docVars == << folder, stores, storeOut, histOut >>

\* cli/update.py update_application.
VARIABLES
    upc,            \* position of the running update_application() call
    schema,         \* the names of the migrations whose up() changed the
                    \* database file
    backup_path,    \* the backup file: None, or the copied database
    dbBefore,       \* history: the database when the update started
    updOut          \* the outcome of the last update_application() call

updVars == << upc, schema, backup_path, dbBefore, updOut >>

\* utils/backup_service.py: the backup files and the retention setting.
VARIABLES
    backups,        \* number of backup files in the backup directory
    max_backups,    \* config "max_backups"
    cleanOut        \* the last cleanup_old_backups() call and its outcome

keepVars == << backups, max_backups, cleanOut >>

\* ui_ctk/main_window.py MainWindow.
VARIABLES
    current_view,   \* self.current_view: None or the view object
    switchOut       \* the last switch_view() call and its outcome

winVars == << current_view, switchOut >>

\* database/migration_manager.py: the names _perform_migration records.
VARIABLES
    named           \* rows [mig, pos, name]: the definition mig, at position
                    \* pos of a pending list, was recorded under name

nameVars == << named >>

\* utils/backup_logger.py BackupLogger.
VARIABLES
    json_log,       \* the events of the JSON log file, oldest first
    statsOut        \* the last get_statistics() call: the log it read and
                    \* the statistics it returned

logVars == << json_log, statsOut >>

\* ui/state/navigation.py NavigationHandler and the views of its page.
VARIABLES
    views,          \* page.views: the routes of the views, last one on top
    current_route,  \* self._current_route
    visited,        \* history: the routes navigate() was called with
    navOut          \* the last call and its outcome

navVars == << views, current_route, visited, navOut >>

vars == << ledger, appVersion, pc, kind, auto, pending, idx, batch, log,
           result, upOk, runs, startLedger, prevResult, schedVars,
           now, authVars, sessVars, docVars, navVars, updVars, keepVars,
           winVars, logVars, nameVars >>

\* Variables outside each subsystem.
outsideMig == << schedVars, now, authVars, sessVars, docVars, navVars, updVars, keepVars,
    winVars, logVars, nameVars >>
outsideBackup == << now, authVars, sessVars, docVars, navVars, updVars, keepVars,
    winVars, logVars, nameVars >>
outsideAuth == << migVars, schedVars, sessVars, docVars, navVars, updVars, keepVars,
    winVars, logVars, nameVars >>
outsideSession == << migVars, schedVars, authVars, docVars, navVars, updVars, keepVars,
    winVars, logVars, nameVars >>
outsideStorage == << migVars, schedVars, now, authVars, sessVars, navVars, updVars, keepVars,
    winVars, logVars, nameVars >>
outsideUpdate == << schedVars, now, authVars, sessVars, docVars, navVars, keepVars,
    winVars, logVars, nameVars >>
outsideKeep == << migVars, schedVars, now, authVars, sessVars, docVars, navVars,
                 updVars, winVars, logVars, nameVars >>
outsideWin == << migVars, schedVars, now, authVars, sessVars, docVars, navVars,
                updVars, keepVars, logVars, nameVars >>
outsideLog == << migVars, schedVars, now, authVars, sessVars, docVars, navVars,
                updVars, keepVars, winVars, nameVars >>
outsideName == << migVars, schedVars, now, authVars, sessVars, docVars, navVars,
                 updVars, keepVars, winVars, logVars >>
outsideNav == << migVars, schedVars, now, authVars, sessVars, docVars, updVars, keepVars,
    winVars, logVars, nameVars >>

\* ---------------------------------------------------------------- helpers
Min(a, b) == IF a < b THEN a ELSE b

\* Python's str ordering: lexicographic by character code, a proper prefix
\* sorts first.
LexLess(a, b) ==
    \/ /\ Len(a) < Len(b)
       /\ \A j \in 1..Len(a) : a[j] = b[j]
    \/ \E k \in 1..Min(Len(a), Len(b)) :
          /\ a[k] < b[k]
          /\ \A j \in 1..(k - 1) : a[j] = b[j]

LedgerNames(l) == { l[k].name : k \in 1..Len(l) }

Msg(ok, m, n, c) == [ok |-> ok, msg |-> m, name |-> n, count |-> c]

NoResult == Msg(FALSE, "none", NoName, 0)

\* ------------------------------------- database/migration_model.py (ledger)
\* get_applied_migrations(): the names recorded in the ledger.
get_applied_migrations(l) == LedgerNames(l)

\* get_last_batch_number(): the highest batch in the ledger, 0 when empty.
get_last_batch_number(l) ==
    IF Len(l) = 0 THEN 0
    ELSE CHOOSE b \in { l[k].batch : k \in 1..Len(l) } :
            \A k \in 1..Len(l) : l[k].batch <= b

\* Variant: the name column carries no unique constraint.
record_migration_dup(l, name, b, run) ==
    { [ledger |-> Append(l, [name |-> name, batch |-> b, run |-> run]),
       raised |-> FALSE] }

\* record_migration(name, batch): append one row.  The name column is
\* unique, so a name already present adds no row; whether that second write
\* raises or is ignored is not fixed, and both answers are modelled.
\* The result is the set of possible outcomes [ledger, raised].
record_migration(l, name, b, run) ==
    IF name \in LedgerNames(l)
    THEN { [ledger |-> l, raised |-> TRUE], [ledger |-> l, raised |-> FALSE] }
    ELSE { [ledger |-> Append(l, [name |-> name, batch |-> b, run |-> run]),
            raised |-> FALSE] }

\* ------------------------------------ database/migrations/base.py (runner)
\* The definitions of a set, as a list in ascending order of name.
RECURSIVE SortByName(_)
SortByName(S) ==
    IF S = {} THEN << >>
    ELSE LET m == CHOOSE x \in S : \A y \in S \ {x} : LexLess(x.name, y.name)
         IN  << m >> \o SortByName(S \ {m})

\* get_pending_migrations(dir): the discovered definitions whose name is not
\* in the ledger, in filename (lexicographic) order.
get_pending_migrations(l) ==
    SortByName({ m \in Discovered : m.name \notin get_applied_migrations(l) })

\* run_migration(migration, batch): invoke up(); when up() returns, record
\* the migration under the batch and answer True; when up() (or the
\* recording) raises, answer False.  upRaises is the environment's choice.
\* The result is the set of possible outcomes [ledger, success, upDone].
run_migration(l, m, b, run, upRaises) ==
    IF upRaises
    THEN { [ledger |-> l, success |-> FALSE, upDone |-> FALSE] }
    ELSE { [ledger |-> o.ledger, success |-> ~o.raised, upDone |-> TRUE] :
             o \in record_migration(l, m.name, b, run) }

\* ----------------------------------------------- database/version.py
\* initialize_version_tracking(): writes APP_VERSION as the stored version
\* when it differs; any exception is swallowed and leaves the row as it was.
initialize_version_tracking(v, fails) ==
    IF fails THEN v
    ELSE IF v # APP_VERSION THEN APP_VERSION ELSE v

\* check_migration_needed(): stored version differs from APP_VERSION;
\* True when the check itself raises.
check_migration_needed(v, fails) ==
    IF fails THEN TRUE ELSE v # APP_VERSION

\* ------------------------------------- database/migration_manager.py
Ev(op, n, ok) == [op |-> op, name |-> n, ok |-> ok]

\* Variant: every discovered definition is returned, applied or not.
_get_pending_migrations_all(l, fails) ==
    IF fails THEN << >> ELSE SortByName(Discovered)

\* _get_pending_migrations(): get_pending_migrations(self.migrations_dir);
\* an exception during discovery is logged and answered with [].
_get_pending_migrations(l, fails) ==
    IF fails THEN << >> ELSE get_pending_migrations(l)

\* _update_version_record(): store APP_VERSION when the stored version
\* differs (otherwise only applied_at timestamps are touched, which the
\* model does not carry); an exception is logged and swallowed.
_update_version_record(v, fails) ==
    IF fails THEN v
    ELSE IF v # APP_VERSION THEN APP_VERSION ELSE v

\* Variant: the positional fallback name is always taken.
MigrationName_fallback(m, i) == << 0, i >>

\* migration_name = migration.name if hasattr(migration, 'name')
\*                  else f"migration_{i}"
MigrationName(m, i) == IF m.hasName THEN m.name ELSE << 0, i >>

\* Variant: the increment is dropped.
NextBatch_last(l) == get_last_batch_number(l)

\* batch = get_last_batch_number() + 1
NextBatch(l) == get_last_batch_number(l) + 1

\* Variant: a failed application is answered with True.
_apply_single_migration_true(l, m, b, run, upRaises) ==
    { [o EXCEPT !.success = TRUE] : o \in run_migration(l, m, b, run, upRaises) }

\* _apply_single_migration(migration, batch): run_migration's answer, False
\* when it raises.
_apply_single_migration(l, m, b, run, upRaises) ==
    run_migration(l, m, b, run, upRaises)

\* Variant: the list is walked from its end.
Current_reversed(p, i) == p[Len(p) + 1 - i]

\* for i, migration in enumerate(pending_migrations, 1): the i-th element.
Current(p, i) == p[i]

Finished(r) ==
    /\ pc' = "idle"
    /\ result' = r

\* Variant: a failed pre-migration backup is logged and the run goes on.
CheckAndMigrate_backup_ignored(auto_migrate, initFails, checkFails, discFails, updFails, backupFails) ==
    /\ pc = "idle"
    /\ runs < MaxRuns
    /\ runs' = runs + 1
    /\ kind' = "manager"
    /\ auto' = auto_migrate
    /\ startLedger' = ledger
    /\ prevResult' = result
    /\ idx' = 1
    /\ UNCHANGED << ledger, upOk >>
    /\ LET v1     == initialize_version_tracking(appVersion, initFails)
           needed == check_migration_needed(v1, checkFails)
           pend   == _get_pending_migrations(ledger, discFails)
       IN  IF ~needed
           THEN /\ appVersion' = v1
                /\ Finished(Msg(TRUE, "up_to_date", NoName, 0))
                /\ pending' = << >> /\ batch' = 0 /\ log' = << >>
           ELSE IF pend = << >>
           THEN /\ appVersion' = _update_version_record(v1, updFails)
                /\ Finished(Msg(TRUE, "version_updated", NoName, 0))
                /\ pending' = << >> /\ batch' = 0 /\ log' = << >>
           ELSE IF ~auto_migrate
           THEN /\ appVersion' = v1
                /\ Finished(Msg(FALSE, "migration_required", NoName, Len(pend)))
                /\ pending' = pend /\ batch' = 0 /\ log' = << >>
           ELSE /\ appVersion' = v1
                /\ pending' = pend
                /\ batch' = NextBatch(ledger)
                /\ log' = << Ev("backup", NoName, ~backupFails) >>
                /\ pc' = "pre_check"
                /\ result' = NoResult

\* check_and_migrate(auto_migrate) up to the first iteration of the loop of
\* _perform_migration: version tracking, the version check, discovery, the
\* pre-migration backup and the batch number.
CheckAndMigrate(auto_migrate, initFails, checkFails, discFails, updFails, backupFails) ==
    /\ pc = "idle"
    /\ runs < MaxRuns
    /\ runs' = runs + 1
    /\ kind' = "manager"
    /\ auto' = auto_migrate
    /\ startLedger' = ledger
    /\ prevResult' = result
    /\ idx' = 1
    /\ UNCHANGED << ledger, upOk >>
    /\ LET v1     == initialize_version_tracking(appVersion, initFails)
           needed == check_migration_needed(v1, checkFails)
           pend   == _get_pending_migrations(ledger, discFails)
       IN  IF ~needed
           THEN /\ appVersion' = v1
                /\ Finished(Msg(TRUE, "up_to_date", NoName, 0))
                /\ pending' = << >> /\ batch' = 0 /\ log' = << >>
           ELSE IF pend = << >>
           THEN /\ appVersion' = _update_version_record(v1, updFails)
                /\ Finished(Msg(TRUE, "version_updated", NoName, 0))
                /\ pending' = << >> /\ batch' = 0 /\ log' = << >>
           ELSE IF ~auto_migrate
           THEN /\ appVersion' = v1
                /\ Finished(Msg(FALSE, "migration_required", NoName, Len(pend)))
                /\ pending' = pend /\ batch' = 0 /\ log' = << >>
           ELSE IF backupFails
           THEN /\ appVersion' = v1
                /\ Finished(Msg(FALSE, "exception", NoName, 0))
                /\ pending' = pend /\ batch' = 0
                /\ log' = << Ev("backup", NoName, FALSE) >>
           ELSE /\ appVersion' = v1
                /\ pending' = pend
                /\ batch' = NextBatch(ledger)
                /\ log' = << Ev("backup", NoName, TRUE) >>
                /\ pc' = "pre_check"
                /\ result' = NoResult

\* migrations/20260128_120000_add_contract_history.py, pre_check(): False
\* ("Contracts table already exists, skipping migration") when the
\* contracts table exists, else True.
AddContractHistory_pre_check(contractsExists) == ~contractsExists

\* Variant: a failed pre-check is logged and the loop body goes on.
PreCheck_ignored(passes) ==
    /\ pc = "pre_check"
    /\ LET m == pending[idx]
           n == IF m.hasName THEN m.name ELSE << 0, idx >>
       IN  IF m.hasPre
           THEN log' = Append(log, Ev("pre_check", n, passes))
           ELSE passes /\ UNCHANGED log
    /\ pc' = "apply"
    /\ UNCHANGED << ledger, appVersion, kind, auto, pending, idx, batch,
                    result, upOk, runs, startLedger, prevResult >>

\* Loop body, first stage: the pre-check of pending_migrations[i].
PreCheck(passes) ==
    /\ pc = "pre_check"
    /\ LET m == Current(pending, idx)
           n == MigrationName(m, idx)
       IN  IF m.hasPre
           THEN /\ log' = Append(log, Ev("pre_check", n, passes))
                /\ IF passes
                   THEN pc' = "apply" /\ UNCHANGED result
                   ELSE Finished(Msg(FALSE, "pre_check_failed", n, 0))
           ELSE /\ passes
                /\ pc' = "apply"
                /\ UNCHANGED << log, result >>
    /\ UNCHANGED << ledger, appVersion, kind, auto, pending, idx, batch,
                    upOk, runs, startLedger, prevResult >>

\* Variant: a failed application restores the ledger of the start of the run.
ApplyMigration_rollback(upRaises) ==
    /\ pc = "apply"
    /\ LET m == pending[idx]
           n == IF m.hasName THEN m.name ELSE << 0, idx >>
       IN  \E o \in run_migration(ledger, m, batch, runs, upRaises) :
              /\ ledger' = IF o.success THEN o.ledger ELSE startLedger
              /\ upOk' = IF o.upDone THEN upOk \cup {m.name} ELSE upOk
              /\ log' = log \o << Ev("up", m.name, o.upDone) >>
                            \o (IF o.upDone
                                THEN << Ev("record", m.name, o.success) >>
                                ELSE << >>)
              /\ IF o.success
                 THEN pc' = "post_check" /\ UNCHANGED result
                 ELSE pc' = "idle" /\ result' = Msg(FALSE, "migration_failed", n, 0)
    /\ UNCHANGED << appVersion, kind, auto, pending, idx, batch, runs,
                    startLedger, prevResult >>

\* Loop body, second stage: _apply_single_migration(migration, batch).
ApplyMigration(upRaises) ==
    /\ pc = "apply"
    /\ LET m == Current(pending, idx)
           n == MigrationName(m, idx)
       IN  \E o \in _apply_single_migration(ledger, m, batch, runs, upRaises) :
              /\ ledger' = o.ledger
              /\ upOk' = IF o.upDone THEN upOk \cup {m.name} ELSE upOk
              /\ log' = log \o << Ev("up", m.name, o.upDone) >>
                            \o (IF o.upDone
                                THEN << Ev("record", m.name, o.success) >>
                                ELSE << >>)
              /\ IF o.success
                 THEN pc' = "post_check" /\ UNCHANGED result
                 ELSE Finished(Msg(FALSE, "migration_failed", n, 0))
    /\ UNCHANGED << appVersion, kind, auto, pending, idx, batch, runs,
                    startLedger, prevResult >>

\* Variant: a failed post-check is logged and the loop body goes on.
PostCheck_ignored(passes) ==
    /\ pc = "post_check"
    /\ LET m == pending[idx]
           n == IF m.hasName THEN m.name ELSE << 0, idx >>
       IN  IF m.hasPost
           THEN log' = Append(log, Ev("post_check", n, passes))
           ELSE passes /\ UNCHANGED log
    /\ pc' = "record"
    /\ UNCHANGED << ledger, appVersion, kind, auto, pending, idx, batch,
                    result, upOk, runs, startLedger, prevResult >>

\* Loop body, third stage: the post-check.
PostCheck(passes) ==
    /\ pc = "post_check"
    /\ LET m == Current(pending, idx)
           n == MigrationName(m, idx)
       IN  IF m.hasPost
           THEN /\ log' = Append(log, Ev("post_check", n, passes))
                /\ IF passes
                   THEN pc' = "record" /\ UNCHANGED result
                   ELSE Finished(Msg(FALSE, "post_check_failed", n, 0))
           ELSE /\ passes
                /\ pc' = "record"
                /\ UNCHANGED << log, result >>
    /\ UNCHANGED << ledger, appVersion, kind, auto, pending, idx, batch,
                    upOk, runs, startLedger, prevResult >>

\* Loop body, last stage: record_migration(migration_name, batch); an
\* exception leaves through the handler of _perform_migration.
RecordMigration ==
    /\ pc = "record"
    /\ LET m == Current(pending, idx)
           n == MigrationName(m, idx)
       IN  \E o \in record_migration(ledger, n, batch, runs) :
              /\ ledger' = o.ledger
              /\ log' = Append(log, Ev("record", n, ~o.raised))
              /\ IF o.raised
                 THEN /\ Finished(Msg(FALSE, "exception", NoName, 0))
                      /\ UNCHANGED idx
                 ELSE /\ idx' = idx + 1
                      /\ pc' = IF idx = Len(pending) THEN "finish" ELSE "pre_check"
                      /\ UNCHANGED result
    /\ UNCHANGED << appVersion, kind, auto, pending, batch, upOk, runs,
                    startLedger, prevResult >>

\* After the loop: _update_version_record() and the success result.
FinishMigration(updFails) ==
    /\ pc = "finish"
    /\ appVersion' = _update_version_record(appVersion, updFails)
    /\ Finished(Msg(TRUE, "success", NoName, Len(pending)))
    /\ UNCHANGED << ledger, kind, auto, pending, idx, batch, log, upOk, runs,
                    startLedger, prevResult >>

\* ------------------------------------------------- cli/update.py
\* run_migrations() up to the loop: discovery, the empty case and the batch
\* number.  An exception (connection, discovery) is answered with False.
RunMigrationsCli(discFails) ==
    /\ pc = "idle"
    /\ runs < MaxRuns
    /\ runs' = runs + 1
    /\ kind' = "cli"
    /\ auto' = TRUE
    /\ startLedger' = ledger
    /\ prevResult' = result
    /\ idx' = 1
    /\ log' = << >>
    /\ UNCHANGED << ledger, appVersion, upOk >>
    /\ IF discFails
       THEN /\ Finished(Msg(FALSE, "exception", NoName, 0))
            /\ pending' = << >> /\ batch' = 0
       ELSE LET pend == get_pending_migrations(ledger)
            IN  IF pend = << >>
                THEN /\ Finished(Msg(TRUE, "no_migrations", NoName, 0))
                     /\ pending' = << >> /\ batch' = 0
                ELSE /\ pending' = pend
                     /\ batch' = get_last_batch_number(ledger) + 1
                     /\ pc' = "cli_apply"
                     /\ result' = NoResult

\* One iteration of the loop of run_migrations(): run_migration(migration,
\* batch); the first failure returns False, the end of the list True.
CliApply(upRaises) ==
    /\ pc = "cli_apply"
    /\ LET m == pending[idx]
       IN  \E o \in run_migration(ledger, m, batch, runs, upRaises) :
              /\ ledger' = o.ledger
              /\ upOk' = IF o.upDone THEN upOk \cup {m.name} ELSE upOk
              /\ log' = log \o << Ev("up", m.name, o.upDone) >>
                            \o (IF o.upDone
                                THEN << Ev("record", m.name, o.success) >>
                                ELSE << >>)
              /\ IF ~o.success
                 THEN /\ Finished(Msg(FALSE, "migration_failed", m.name, 0))
                      /\ UNCHANGED idx
                 ELSE /\ idx' = idx + 1
                      /\ IF idx = Len(pending)
                         THEN Finished(Msg(TRUE, "all_completed", NoName, Len(pending)))
                         ELSE UNCHANGED << pc, result >>
    /\ UNCHANGED << appVersion, kind, auto, pending, batch, runs, startLedger,
                    prevResult >>

\* ------------------------------------------------ utils/backup_service.py
\* BackupScheduler.is_running(): the object's thread is alive.
is_running(id, ths) == id \in ths

\* Variant: the constructor creates and starts a scheduler.
BackupServiceInit_autostart ==
    /\ enabled = TRUE
    /\ scheduler = 1
    /\ threads = {1}
    /\ created = 1
    /\ schedBackup = 0
    /\ schedOut = "none"

\* BackupService.__init__: configuration loaded, no scheduler ("Scheduler
\* will be created when started").
BackupServiceInit ==
    /\ enabled \in BOOLEAN
    /\ scheduler = 0
    /\ threads = {}
    /\ created = 0
    /\ schedBackup = 0
    /\ schedOut = "none"

\* Variant: the check for a running scheduler is missing.
StartScheduler_nocheck ==
    /\ pc = "idle"
    /\ IF ~enabled
       THEN /\ schedOut' = "disabled"
            /\ UNCHANGED << scheduler, threads, created >>
       ELSE /\ created < MaxSchedulers
            /\ created' = created + 1
            /\ scheduler' = created + 1
            /\ threads' = threads \cup {created + 1}
            /\ schedOut' = "started"
    /\ UNCHANGED << enabled, schedBackup >>

\* start_scheduler(), called on the main thread between two calls of the
\* migration runner: RuntimeError when a scheduler is running, False when
\* backups are disabled, else a new BackupScheduler is created and started.
StartScheduler ==
    /\ pc = "idle"
    /\ IF scheduler # 0 /\ is_running(scheduler, threads)
       THEN /\ schedOut' = "RuntimeError"
            /\ UNCHANGED << scheduler, threads, created >>
       ELSE IF ~enabled
       THEN /\ schedOut' = "disabled"
            /\ UNCHANGED << scheduler, threads, created >>
       ELSE /\ created < MaxSchedulers
            /\ created' = created + 1
            /\ scheduler' = created + 1
            /\ threads' = threads \cup {created + 1}
            /\ schedOut' = "started"
    /\ UNCHANGED << enabled, schedBackup >>

\* stop_scheduler(): stops the scheduler (waiting for a copy in progress to
\* end) and forgets the object.
StopScheduler ==
    /\ pc = "idle"
    /\ scheduler # 0
    /\ schedBackup # scheduler
    /\ threads' = threads \ {scheduler}
    /\ scheduler' = 0
    /\ schedOut' = "stopped"
    /\ UNCHANGED << enabled, created, schedBackup >>

\* update_config({"enabled": b}).
UpdateConfig(b) ==
    /\ pc = "idle"
    /\ enabled # b
    /\ enabled' = b
    /\ UNCHANGED << scheduler, threads, created, schedBackup, schedOut >>

\* The scheduler thread: at the configured time of day it starts a backup
\* (a copy of the database file), whatever the main thread is doing.
SchedulerFire(id) ==
    /\ id \in threads
    /\ schedBackup = 0
    /\ schedBackup' = id
    /\ UNCHANGED << enabled, scheduler, threads, created, schedOut >>

\* The scheduler thread: the copy ends.
SchedulerBackupDone ==
    /\ schedBackup # 0
    /\ schedBackup' = 0
    /\ UNCHANGED << enabled, scheduler, threads, created, schedOut >>

\* --------------------------------------------------------- auth/models.py
\* locked_until = None
NoTime == -1

\* if self.failed_login_attempts >= 5
LOCK_THRESHOLD == 5

\* timedelta(minutes=30)
LOCK_MINUTES == 30

\* Variant: an expired lock is cleared but the attempts are kept.
is_locked_keep_attempts(u, t) ==
    IF u.locked_until = NoTime
    THEN [ret |-> FALSE, user |-> u]
    ELSE IF t >= u.locked_until
    THEN [ret |-> FALSE, user |-> [u EXCEPT !.locked_until = NoTime]]
    ELSE [ret |-> TRUE, user |-> u]

\* User.is_locked() at time t: the answer and the row afterwards (an expired
\* lock is cleared and saved).
is_locked(u, t) ==
    IF u.locked_until = NoTime
    THEN [ret |-> FALSE, user |-> u]
    ELSE IF t >= u.locked_until
    THEN [ret |-> FALSE,
          user |-> [u EXCEPT !.locked_until = NoTime,
                             !.failed_login_attempts = 0]]
    ELSE [ret |-> TRUE, user |-> u]

\* Variant: the account is locked after the threshold is exceeded.
record_failed_login_gt(u, t) ==
    LET a == u.failed_login_attempts + 1
    IN  [u EXCEPT !.failed_login_attempts = a,
                  !.locked_until = IF a > LOCK_THRESHOLD
                                   THEN t + LOCK_MINUTES ELSE @]

\* User.record_failed_login() at time t.
record_failed_login(u, t) ==
    LET a == u.failed_login_attempts + 1
    IN  [u EXCEPT !.failed_login_attempts = a,
                  !.locked_until = IF a >= LOCK_THRESHOLD
                                   THEN t + LOCK_MINUTES ELSE @]

\* User.reset_failed_login_attempts() (last_login is not carried).
reset_failed_login_attempts(u) ==
    [u EXCEPT !.failed_login_attempts = 0, !.locked_until = NoTime]

\* ------------------------------------------------- auth/authentication.py
AuthResult(success, error, hasUser, u) ==
    [success |-> success, error |-> error, hasUser |-> hasUser, user |-> u]

\* Variant: the password is verified before the lock is looked at.
authenticate_pwfirst(known, pwOk, u, t) ==
    IF ~known THEN AuthResult(FALSE, "invalid", FALSE, u)
    ELSE IF ~u.is_active THEN AuthResult(FALSE, "disabled", FALSE, u)
    ELSE IF pwOk
    THEN AuthResult(TRUE, "none", TRUE, reset_failed_login_attempts(u))
    ELSE IF is_locked(u, t).ret
    THEN AuthResult(FALSE, "locked", FALSE, is_locked(u, t).user)
    ELSE AuthResult(FALSE, "invalid", FALSE,
                    record_failed_login(is_locked(u, t).user, t))

\* authenticate(username, password) at time t: known says whether the name
\* (or e-mail) finds the row, pwOk whether verify_password accepts.  The
\* answer is (success, error, user) and the row afterwards.
authenticate(known, pwOk, u, t) ==
    IF ~known THEN AuthResult(FALSE, "invalid", FALSE, u)
    ELSE IF ~u.is_active THEN AuthResult(FALSE, "disabled", FALSE, u)
    ELSE IF is_locked(u, t).ret
    THEN AuthResult(FALSE, "locked", FALSE, is_locked(u, t).user)
    ELSE IF ~pwOk
    THEN AuthResult(FALSE, "invalid", FALSE,
                    record_failed_login(is_locked(u, t).user, t))
    ELSE AuthResult(TRUE, "none", TRUE,
                    reset_failed_login_attempts(is_locked(u, t).user))

\* History kept beside the row for a call at time t: unlocked says that
\* is_locked() cleared an expired lock, failed that record_failed_login() was
\* called, reset that reset_failed_login_attempts() was called.
Count(unlocked, failed, reset, t) ==
    /\ failCount' = IF reset THEN 0
                ELSE (IF unlocked THEN 0 ELSE failCount) + (IF failed THEN 1 ELSE 0)
    /\ lastFailAt' = IF failed THEN t ELSE lastFailAt

AuthInit ==
    /\ user = [failed_login_attempts |-> 0, locked_until |-> NoTime,
               is_active |-> TRUE]
    /\ current_user = 0
    /\ authOut = [op |-> "none", known |-> FALSE, pwOk |-> FALSE,
                  success |-> FALSE, error |-> "none", hasUser |-> FALSE,
                  raised |-> "none", wasLocked |-> FALSE]
    /\ failCount = 0
    /\ lastFailAt = NoTime

\* A direct call of user.record_failed_login().
RecordFailedLogin ==
    /\ user.failed_login_attempts < MaxAttempts
    /\ user' = record_failed_login(user, now)
    /\ Count(FALSE, TRUE, FALSE, now)
    /\ UNCHANGED << current_user, authOut, now >>

\* A direct call of user.is_locked().
IsLocked ==
    /\ user' = is_locked(user, now).user
    /\ Count(is_locked(user, now).user # user, FALSE, FALSE, now)
    /\ UNCHANGED << current_user, authOut, now >>

\* The administrator enables or disables the account.
SetActive(b) ==
    /\ user.is_active # b
    /\ user' = [user EXCEPT !.is_active = b]
    /\ UNCHANGED << current_user, authOut, failCount, lastFailAt, now >>

\* AuthenticationService.authenticate(username, password).
Authenticate(known, pwOk) ==
    /\ LET r == authenticate(known, pwOk, user, now)
       IN  /\ user' = r.user
           /\ Count(known /\ user.is_active /\ is_locked(user, now).user # user,
                    known /\ r.error = "invalid", r.success, now)
           /\ authOut' = [op |-> "authenticate", known |-> known,
                          pwOk |-> pwOk, success |-> r.success,
                          error |-> r.error, hasUser |-> r.hasUser,
                          raised |-> "none",
                          wasLocked |-> known /\ is_locked(user, now).ret]
    /\ UNCHANGED << current_user, now >>

\* AuthenticationService.login(username, password): on failure the user
\* returned by authenticate is None, so the AccountLockedError branch is not
\* taken.
Login(known, pwOk) ==
    /\ LET r == authenticate(known, pwOk, user, now)
           raised == IF r.success THEN "none"
                     ELSE IF r.hasUser /\ is_locked(r.user, now).ret
                     THEN "AccountLockedError"
                     ELSE "InvalidCredentialsError"
       IN  /\ user' = r.user
           /\ Count(known /\ user.is_active /\ is_locked(user, now).user # user,
                    known /\ r.error = "invalid", r.success, now)
           /\ current_user' = IF r.success THEN 1 ELSE current_user
           /\ authOut' = [op |-> "login", known |-> known,
                          pwOk |-> pwOk, success |-> r.success,
                          error |-> r.error, hasUser |-> r.hasUser,
                          raised |-> raised,
                          wasLocked |-> known /\ is_locked(user, now).ret]
    /\ UNCHANGED now

\* AuthenticationService.logout().
Logout ==
    /\ current_user # 0
    /\ current_user' = 0
    /\ UNCHANGED << user, authOut, failCount, lastFailAt, now >>

\* Time passes.
Tick(d) ==
    /\ now + d <= MaxTime
    /\ now' = now + d

\* -------------------------------------------------------- auth/session.py
\* Session.DEFAULT_TIMEOUT_MINUTES
DEFAULT_TIMEOUT_MINUTES == 30

\* self.current_session = None
NoSession == [user |-> 0, last_activity |-> NoTime]

\* Variant: the session expires after the timeout is exceeded.
is_expired_gt(sess, timeout, t) == t - sess.last_activity > timeout

\* Session.is_expired() at time t.
is_expired(sess, timeout, t) == t - sess.last_activity >= timeout

\* SessionManager.get_current_user(): 0 for None.
get_current_user(sess, timeout, t) ==
    IF sess # NoSession /\ ~is_expired(sess, timeout, t) THEN sess.user ELSE 0

\* SessionManager.is_authenticated().
is_authenticated(sess, timeout, t) == get_current_user(sess, timeout, t) # 0

SessionInit ==
    /\ timeout_minutes \in {0, DEFAULT_TIMEOUT_MINUTES}
    /\ current_session = NoSession
    /\ sessOpen = FALSE
    /\ sessActive = NoTime
    /\ sessOut = "none"

\* SessionManager.create_session(user).
CreateSession ==
    /\ current_session' = [user |-> 1, last_activity |-> now]
    /\ sessOpen' = TRUE
    /\ sessActive' = now
    /\ sessOut' = "create_session"
    /\ UNCHANGED << timeout_minutes, now >>

\* Variant: only the presence of a session is looked at.
RefreshSession_unchecked ==
    /\ IF current_session = NoSession
       THEN /\ sessOut' = "AuthenticationError"
            /\ UNCHANGED << current_session, sessActive >>
       ELSE /\ current_session' = [current_session EXCEPT !.last_activity = now]
            /\ sessActive' = now
            /\ sessOut' = "refresh_session"
    /\ UNCHANGED << timeout_minutes, sessOpen, now >>

\* SessionManager.refresh_session(): AuthenticationError without a valid
\* session, else the activity time is renewed.
RefreshSession ==
    /\ IF current_session = NoSession
          \/ is_expired(current_session, timeout_minutes, now)
       THEN /\ sessOut' = "AuthenticationError"
            /\ UNCHANGED << current_session, sessActive >>
       ELSE /\ current_session' = [current_session EXCEPT !.last_activity = now]
            /\ sessActive' = now
            /\ sessOut' = "refresh_session"
    /\ UNCHANGED << timeout_minutes, sessOpen, now >>

\* SessionManager.logout().
SessionLogout ==
    /\ current_session' = NoSession
    /\ sessOpen' = FALSE
    /\ sessOut' = "logout"
    /\ UNCHANGED << timeout_minutes, sessActive, now >>

\* SessionManager.check_session_timeout(): an expired session is ended.
CheckSessionTimeout ==
    /\ IF current_session # NoSession
          /\ is_expired(current_session, timeout_minutes, now)
       THEN /\ current_session' = NoSession
            /\ sessOpen' = FALSE
            /\ sessOut' = "timed_out"
       ELSE /\ sessOut' = "not_timed_out"
            /\ UNCHANGED << current_session, sessOpen >>
    /\ UNCHANGED << timeout_minutes, sessActive, now >>

\* ------------------------------------------------- utils/file_storage.py
\* File names are sequences of pieces; "_" is a piece of its own.
FileNames == { << "doc.pdf" >>, << "old", "_", "doc.pdf" >>, << "cv.pdf" >> }

\* upload_date.strftime("%Y-%m-%d"): one day is explored.
DateStr == "2024-01-15"

\* f"v{version}_{date_str}_{file_name}.json"
MetadataPath(version, file_name) ==
    << "v", ToString(version), "_", DateStr, "_" >> \o file_name \o << ".json" >>

Range(q) == { q[i] : i \in 1..Len(q) }

Max(S) == CHOOSE x \in S : \A y \in S : y <= x

\* tail of the path from position i
Tail_from(path, i) == SubSeq(path, i, Len(path))

\* the piece sequence q occurs in path at position i
OccursAt(path, q, i) ==
    /\ i + Len(q) - 1 <= Len(path)
    /\ SubSeq(path, i, i + Len(q) - 1) = q

\* folder.glob(f"*_*_{file_name}.json"): anything, "_", anything, "_", the
\* file name and ".json" at the end.
MatchesHistoryPattern(path, file_name) ==
    \E i \in 1..Len(path) :
       /\ Tail_from(path, i) = << "_" >> \o file_name \o << ".json" >>
       /\ \E j \in 1..(i - 1) : path[j] = "_"

\* folder.glob(f"v{version}_*_{file_name}*")
MatchesVersionPattern(path, version, file_name) ==
    /\ OccursAt(path, << "v", ToString(version), "_" >>, 1)
    /\ \E i \in 4..Len(path) : OccursAt(path, << "_" >> \o file_name, i)

\* folder.glob(f"*_*_{file_name}*")
MatchesAllPattern(path, file_name) ==
    \E i \in 1..Len(path) :
       /\ OccursAt(path, << "_" >> \o file_name, i)
       /\ \E j \in 1..(i - 1) : path[j] = "_"

\* The metadata get_document_history reads.
HistoryFiles(fold, file_name) ==
    { f \in fold : MatchesHistoryPattern(f.path, file_name) }

\* versions.sort(key=version): the orders the sort can produce from the
\* files the glob yields (files of equal version in either order).
get_document_history(fold, file_name) ==
    LET H == HistoryFiles(fold, file_name)
        n == Cardinality(H)
    IN  { h \in [1..n -> H] :
            /\ \A i, j \in 1..n : i < j => h[i] # h[j] /\ h[i].version <= h[j].version }

\* _get_next_version(doc_type, matricule, file_name)
_get_next_version(fold, file_name) ==
    LET H == HistoryFiles(fold, file_name)
    IN  IF H = {} THEN 1 ELSE Max({ f.version : f \in H }) + 1

\* The stored versions of one document: the metadata whose file_name is it.
StoredVersions_of(fold, file_name) == { f \in fold : f.file_name = file_name }

StorageInit ==
    /\ folder = {}
    /\ stores = 0
    /\ storeOut = [file_name |-> << >>, version |-> 0, auto |-> FALSE,
                   before |-> {}]
    /\ histOut = [file_name |-> << >>, result |-> << >>, stored |-> {}]

\* store_document(file_path, doc_type, matricule, metadata, version):
\* version 0 stands for None.  A file of the same path is overwritten.
StoreDocument(file_name, version) ==
    /\ stores < MaxStores
    /\ stores' = stores + 1
    /\ LET v == IF version = 0 THEN _get_next_version(folder, file_name)
                ELSE version
           path == MetadataPath(v, file_name)
       IN  /\ folder' = { f \in folder : f.path # path }
                        \cup { [path |-> path, file_name |-> file_name,
                                version |-> v] }
           /\ storeOut' = [file_name |-> file_name, version |-> v,
                           auto |-> version = 0,
                           before |-> { f.version :
                                        f \in StoredVersions_of(folder, file_name) }]
    /\ UNCHANGED histOut

\* get_document_history(doc_type, matricule, file_name)
GetDocumentHistory(file_name) ==
    /\ \E h \in get_document_history(folder, file_name) :
          histOut' = [file_name |-> file_name, result |-> h,
                      stored |-> StoredVersions_of(folder, file_name)]
    /\ UNCHANGED << folder, stores, storeOut >>

\* delete_document(doc_type, matricule, file_name, version): version 0
\* stands for None (all versions).
DeleteDocument(file_name, version) ==
    /\ LET gone == IF version # 0
                   THEN { f \in folder :
                            MatchesVersionPattern(f.path, version, file_name) }
                   ELSE { f \in folder : MatchesAllPattern(f.path, file_name) }
       IN  /\ gone # {}
           /\ folder' = folder \ gone
    /\ UNCHANGED << stores, storeOut, histOut >>

\* ------------------------------------------------ ui/state/navigation.py
\* The routes with a registered view builder, and one without.
Registered == { "/", "/employees", "/documents" }
Routes == Registered \cup { "/unknown" }

\* _find_view_builder(route): whether a builder is found (direct match).
_find_view_builder(route) == route \in Registered

NavigationInit ==
    /\ views = << "/" >>
    /\ current_route = "/"
    /\ visited = << >>
    /\ navOut = [op |-> "none", raised |-> "none", found |-> FALSE,
                 before |-> << >>]

\* navigate(route): the views of the page are cleared and the view of the
\* route (or the 404 view, which carries the route too) is the only one.
Navigate(route) ==
    /\ Len(visited) < MaxNav
    /\ current_route' = route
    /\ views' = << route >>
    /\ visited' = Append(visited, route)
    /\ navOut' = [op |-> "navigate", raised |-> "none",
                  found |-> _find_view_builder(route), before |-> visited]

\* go_back(): self.page.views.pop(), then self.page.views[-1]; IndexError
\* when the list is or becomes empty.
GoBack ==
    /\ views' = IF views = << >> THEN views ELSE SubSeq(views, 1, Len(views) - 1)
    /\ navOut' = [op |-> "go_back",
                  raised |-> IF Len(views) <= 1 THEN "IndexError" ELSE "none",
                  found |-> FALSE, before |-> visited]
    /\ UNCHANGED << current_route, visited >>

\* ---------------------------------------- cli/update.py update_application
\* backup_path = None
NoBackup == [made |-> FALSE, ledger |-> << >>, schema |-> {}]

\* The database file: the migrations table and the schema that the up()
\* procedures build.
Database(l, sch) == [made |-> TRUE, ledger |-> l, schema |-> sch]

UpdOut(ret, backed, restored) ==
    [ret |-> ret, backup |-> backed, restored |-> restored]

UpdateInit ==
    /\ upc = "idle"
    /\ schema = {}
    /\ backup_path = NoBackup
    /\ dbBefore = Database(<< >>, {})
    /\ updOut = UpdOut("none", FALSE, FALSE)

\* update_application() up to the call of run_migrations(): the update
\* check and preview (proceed), create_backup (backupFails; continueWithout
\* is the answer to "Continue without backup?") and the download.
UpdateApplication(proceed, backup, backupFails, continueWithout, downloadFails) ==
    /\ upc = "idle"
    /\ pc = "idle"
    /\ runs < MaxRuns
    /\ dbBefore' = Database(ledger, schema)
    /\ IF ~proceed
       THEN /\ updOut' = UpdOut("true", FALSE, FALSE)
            /\ UNCHANGED << upc, backup_path >>
       ELSE IF backup /\ backupFails /\ ~continueWithout
       THEN /\ updOut' = UpdOut("false", FALSE, FALSE)
            /\ backup_path' = NoBackup
            /\ UNCHANGED upc
       ELSE /\ backup_path' = IF backup /\ ~backupFails
                              THEN Database(ledger, schema) ELSE NoBackup
            /\ upc' = IF downloadFails THEN "rollback" ELSE "run_migrations"
            /\ updOut' = UpdOut("none", FALSE, FALSE)
    /\ UNCHANGED schema

\* update_application(): the call of run_migrations() begins.
UpdateRunMigrations(discFails) ==
    /\ upc = "run_migrations"
    /\ RunMigrationsCli(discFails)
    /\ upc' = "migrating"
    /\ UNCHANGED << schema, backup_path, dbBefore, updOut >>

\* update_application(): one iteration of the loop of run_migrations(); an
\* up() that returns has changed the database file.
UpdateCliApply(upRaises) ==
    /\ upc = "migrating"
    /\ CliApply(upRaises)
    /\ schema' = schema \cup (upOk' \ upOk)
    /\ UNCHANGED << upc, backup_path, dbBefore, updOut >>

\* update_application(): run_migrations() has returned.
UpdateMigrationsDone ==
    /\ upc = "migrating"
    /\ pc = "idle"
    /\ IF result.ok
       THEN /\ upc' = "idle"
            /\ updOut' = UpdOut("true", backup_path.made, FALSE)
       ELSE /\ upc' = "rollback"
            /\ UNCHANGED updOut
    /\ UNCHANGED << schema, backup_path, dbBefore >>

\* restore_backup(backup_path, data_path): the copy, True; False when the
\* copy raises.
restore_backup(bk, l, sch, copyRaises) ==
    IF copyRaises
    THEN [ok |-> FALSE, ledger |-> l, schema |-> sch]
    ELSE [ok |-> TRUE, ledger |-> bk.ledger, schema |-> bk.schema]

\* update_application(): "Rolling back..." after a failed download or a
\* failed run_migrations(): restore_backup when a backup was made (its
\* answer is not looked at), then return False.
UpdateRollback(copyRaises) ==
    /\ upc = "rollback"
    /\ upc' = "idle"
    /\ IF backup_path.made
       THEN LET r == restore_backup(backup_path, ledger, schema, copyRaises)
            IN  /\ ledger' = r.ledger
                /\ schema' = r.schema
                /\ updOut' = UpdOut("false", TRUE, r.ok)
       ELSE /\ updOut' = UpdOut("false", FALSE, FALSE)
            /\ UNCHANGED << ledger, schema >>
    /\ UNCHANGED << backup_path, dbBefore, appVersion, pc, kind, auto, pending,
                    idx, batch, log, result, upOk, runs, startLedger,
                    prevResult >>

\* ------------------------------- utils/backup_service.py (backup retention)
\* keep_count = None
NoKeep == -1

RetentionInit ==
    /\ backups = 0
    /\ max_backups = MaxKeep
    /\ cleanOut = [called |-> FALSE, keep |-> 0, before |-> 0, after |-> 0,
                   ret |-> 0]

\* BackupService.create_backup(description): BackupManager.create_backup
\* writes one more file and removes the oldest ones beyond max_backups.
CreateBackup ==
    /\ backups' = Min(backups + 1, max_backups)
    /\ UNCHANGED << max_backups, cleanOut >>

\* update_config({"max_backups": n})
UpdateMaxBackups(n) ==
    /\ max_backups # n
    /\ max_backups' = n
    /\ UNCHANGED << backups, cleanOut >>

\* cleanup_old_backups(keep_count): the default is read from the
\* configuration, the request is logged, no file is removed and 0 is
\* returned.
CleanupOldBackups(keep_count) ==
    /\ LET keep == IF keep_count = NoKeep THEN max_backups ELSE keep_count
       IN  cleanOut' = [called |-> TRUE, keep |-> keep, before |-> backups,
                        after |-> backups, ret |-> 0]
    /\ UNCHANGED << backups, max_backups >>

\* ------------------------------------------------ ui_ctk/main_window.py
\* self.current_view = None
NoView == [present |-> FALSE, hasCheck |-> FALSE, hasSave |-> FALSE,
           unsaved |-> FALSE]

\* View classes are duck-typed: with or without has_unsaved_changes(), with
\* or without save().
ViewClasses == { [hasCheck |-> c, hasSave |-> s] : c, s \in BOOLEAN }

\* view_class(self.view_container, ...)
NewView(cls) == [present |-> TRUE, hasCheck |-> cls.hasCheck,
                 hasSave |-> cls.hasSave, unsaved |-> FALSE]

\* _check_current_view_unsaved(): an exception of has_unsaved_changes() is
\* printed and counts as no unsaved changes.
_check_current_view_unsaved(view, checkRaises) ==
    /\ view.present
    /\ view.hasCheck
    /\ ~checkRaises
    /\ view.unsaved

\* _prompt_unsaved_changes(): the user's answer; 'discard' when the message
\* box raises.
_prompt_unsaved_changes(response, promptRaises) ==
    IF promptRaises THEN "discard" ELSE response

\* _save_current_view(): True without a view, the outcome of save() when
\* the view has one, True ("assume no save needed") when it has none.
_save_current_view(view, saveRaises) ==
    IF ~view.present THEN TRUE
    ELSE IF view.hasSave THEN ~saveRaises
    ELSE TRUE

WindowInit ==
    /\ current_view = NoView
    /\ switchOut = [switched |-> FALSE, detected |-> FALSE, answer |-> "none",
                    saved |-> FALSE]

\* The user edits the current view.
EditView ==
    /\ current_view.present
    /\ ~current_view.unsaved
    /\ current_view' = [current_view EXCEPT !.unsaved = TRUE]
    /\ UNCHANGED switchOut

\* switch_view(view_class): response is the user's answer to the prompt.
\* switchOut records whether unsaved changes were detected, the answer the
\* user gave ("none" when no prompt was answered) and whether save() ran
\* and returned.
SwitchView(cls, response, checkRaises, promptRaises, saveRaises) ==
    LET detected == _check_current_view_unsaved(current_view, checkRaises)
        answer   == _prompt_unsaved_changes(response, promptRaises)
        saved    == /\ detected /\ answer = "save" /\ current_view.hasSave
                    /\ ~saveRaises
        stay     == /\ detected
                    /\ \/ answer = "cancel"
                       \/ /\ answer = "save"
                          /\ ~_save_current_view(current_view, saveRaises)
    IN  /\ current_view' = IF stay THEN current_view ELSE NewView(cls)
        /\ switchOut' = [switched |-> ~stay, detected |-> detected,
                         answer |-> IF detected /\ ~promptRaises
                                    THEN response ELSE "none",
                         saved |-> saved]

\* ------------------------------------------------- utils/backup_logger.py
\* events = self.get_recent_events(count=1000)
STATS_EVENT_COUNT == 1000

\* 'last_backup': None
NoStamp == 0

EventTypes == { "start", "success", "failure" }

Reverse(q) == [i \in 1..Len(q) |-> q[Len(q) + 1 - i]]

\* get_recent_events(count): events[-count:][::-1], most recent first.
get_recent_events(events, count) ==
    Reverse(SubSeq(events, IF Len(events) > count THEN Len(events) - count + 1
                           ELSE 1, Len(events)))

NoStats == [total_backups |-> 0, successful_backups |-> 0,
            failed_backups |-> 0, last_backup |-> NoStamp,
            last_successful_backup |-> NoStamp]

\* One pass of the loop of get_statistics() over an event.
StatsStep(stats, event) ==
    IF event.event_type = "success"
    THEN [stats EXCEPT !.total_backups = @ + 1,
                       !.successful_backups = @ + 1,
                       !.last_backup = IF stats.last_backup = NoStamp
                                       THEN event.timestamp ELSE @,
                       !.last_successful_backup =
                            IF stats.last_backup = NoStamp
                            THEN event.timestamp ELSE @]
    ELSE IF event.event_type = "failure"
    THEN [stats EXCEPT !.total_backups = @ + 1,
                       !.failed_backups = @ + 1,
                       !.last_backup = IF stats.last_backup = NoStamp
                                       THEN event.timestamp ELSE @]
    ELSE stats

RECURSIVE StatsLoop(_, _, _)
StatsLoop(stats, events, i) ==
    IF i > Len(events) THEN stats
    ELSE StatsLoop(StatsStep(stats, events[i]), events, i + 1)

\* get_statistics(): the loop over the recent events, most recent first.
get_statistics(events) ==
    StatsLoop(NoStats, get_recent_events(events, STATS_EVENT_COUNT), 1)

LoggerInit ==
    /\ json_log = << >>
    /\ statsOut = [called |-> FALSE, log |-> << >>, stats |-> NoStats]

\* _log_json_event(event): one more line in the JSON log; timestamps grow.
LogEvent(event_type) ==
    /\ Len(json_log) < MaxEvents
    /\ json_log' = Append(json_log, [event_type |-> event_type,
                                     timestamp |-> Len(json_log) + 1])
    /\ UNCHANGED statsOut

\* get_statistics()
GetStatistics ==
    /\ statsOut' = [called |-> TRUE, log |-> json_log,
                    stats |-> get_statistics(json_log)]
    /\ UNCHANGED json_log

\* ------------------------- database/migration_manager.py (recorded names)
NamingInit == named = {}

\* One pass of the loop of _perform_migration over the pending list made of
\* the objects S, at position i: the name computed for the object and
\* handed to record_migration(migration_name, batch).
PerformMigrationRecord(S, i) ==
    LET pending_migrations == SortByName(S)
    IN  /\ i \in 1..Len(pending_migrations)
        /\ Cardinality(named) < MaxNamed
        /\ named' = named \cup
              { [mig  |-> pending_migrations[i].name,
                 pos  |-> i,
                 name |-> MigrationName(pending_migrations[i], i)] }

\* ------------------------------------------------------- specification
Init ==
    /\ ledger = << >>
    /\ appVersion \in StoredVersions
    /\ pc = "idle"
    /\ kind = "manager"
    /\ auto = FALSE
    /\ pending = << >>
    /\ idx = 1
    /\ batch = 0
    /\ log = << >>
    /\ result = NoResult
    /\ upOk = {}
    /\ runs = 0
    /\ startLedger = << >>
    /\ prevResult = NoResult
    /\ BackupServiceInit
    /\ now = 0
    /\ AuthInit
    /\ SessionInit
    /\ StorageInit
    /\ NavigationInit
    /\ UpdateInit
    /\ RetentionInit
    /\ WindowInit
    /\ LoggerInit
    /\ NamingInit

\* The migration runner alone.
Next ==
    \/ \E a, f1, f2, f3, f4, f5 \in BOOLEAN :
          CheckAndMigrate(a, f1, f2, f3, f4, f5) /\ UNCHANGED outsideMig
    \/ \E passes \in BOOLEAN : PreCheck(passes) /\ UNCHANGED outsideMig
    \/ \E upRaises \in BOOLEAN : ApplyMigration(upRaises) /\ UNCHANGED outsideMig
    \/ \E passes \in BOOLEAN : PostCheck(passes) /\ UNCHANGED outsideMig
    \/ RecordMigration /\ UNCHANGED outsideMig
    \/ \E updFails \in BOOLEAN : FinishMigration(updFails) /\ UNCHANGED outsideMig
    \/ \E discFails \in BOOLEAN : RunMigrationsCli(discFails) /\ UNCHANGED outsideMig
    \/ \E upRaises \in BOOLEAN : CliApply(upRaises) /\ UNCHANGED outsideMig

Spec == Init /\ [][Next]_vars

\* The backup service next to the migration manager: the main thread calls
\* check_and_migrate, start_scheduler, stop_scheduler and update_config one
\* after the other; the scheduler thread runs beside it.
NextBackup ==
    \/ \E a, f1, f2, f3, f4, f5 \in BOOLEAN :
          CheckAndMigrate(a, f1, f2, f3, f4, f5) /\ UNCHANGED << schedVars, outsideBackup >>
    \/ \E passes \in BOOLEAN : PreCheck(passes) /\ UNCHANGED << schedVars, outsideBackup >>
    \/ \E upRaises \in BOOLEAN : ApplyMigration(upRaises) /\ UNCHANGED << schedVars, outsideBackup >>
    \/ \E passes \in BOOLEAN : PostCheck(passes) /\ UNCHANGED << schedVars, outsideBackup >>
    \/ RecordMigration /\ UNCHANGED << schedVars, outsideBackup >>
    \/ \E updFails \in BOOLEAN : FinishMigration(updFails) /\ UNCHANGED << schedVars, outsideBackup >>
    \/ StartScheduler /\ UNCHANGED << migVars, outsideBackup >>
    \/ StopScheduler /\ UNCHANGED << migVars, outsideBackup >>
    \/ \E b \in BOOLEAN : UpdateConfig(b) /\ UNCHANGED << migVars, outsideBackup >>
    \/ \E id \in 1..MaxSchedulers : SchedulerFire(id) /\ UNCHANGED << migVars, outsideBackup >>
    \/ SchedulerBackupDone /\ UNCHANGED << migVars, outsideBackup >>

SpecBackup == Init /\ [][NextBackup]_vars

\* User rows and the AuthenticationService, with the clock.
NextAuth ==
    \/ RecordFailedLogin /\ UNCHANGED outsideAuth
    \/ IsLocked /\ UNCHANGED outsideAuth
    \/ \E b \in BOOLEAN : SetActive(b) /\ UNCHANGED outsideAuth
    \/ \E known, pwOk \in BOOLEAN : Authenticate(known, pwOk) /\ UNCHANGED outsideAuth
    \/ \E known, pwOk \in BOOLEAN : Login(known, pwOk) /\ UNCHANGED outsideAuth
    \/ Logout /\ UNCHANGED outsideAuth
    \/ \E d \in TickSteps : Tick(d) /\ UNCHANGED << authVars, outsideAuth >>

SpecAuth == Init /\ [][NextAuth]_vars

\* The AuthenticationService alone: the row changes only through
\* authenticate() and login().
NextAuthService ==
    \/ \E b \in BOOLEAN : SetActive(b) /\ UNCHANGED outsideAuth
    \/ \E known, pwOk \in BOOLEAN : Authenticate(known, pwOk) /\ UNCHANGED outsideAuth
    \/ \E known, pwOk \in BOOLEAN : Login(known, pwOk) /\ UNCHANGED outsideAuth
    \/ Logout /\ UNCHANGED outsideAuth
    \/ \E d \in TickSteps : Tick(d) /\ UNCHANGED << authVars, outsideAuth >>

SpecAuthService == Init /\ [][NextAuthService]_vars

\* The SessionManager, with the clock.
NextSession ==
    \/ CreateSession /\ UNCHANGED outsideSession
    \/ RefreshSession /\ UNCHANGED outsideSession
    \/ SessionLogout /\ UNCHANGED outsideSession
    \/ CheckSessionTimeout /\ UNCHANGED outsideSession
    \/ \E d \in TickSteps : Tick(d) /\ UNCHANGED << sessVars, outsideSession >>

SpecSession == Init /\ [][NextSession]_vars

\* The document storage of one employee folder.
NextStorage ==
    \/ \E fn \in FileNames, v \in 0..MaxVersion :
          StoreDocument(fn, v) /\ UNCHANGED outsideStorage
    \/ \E fn \in FileNames : GetDocumentHistory(fn) /\ UNCHANGED outsideStorage
    \/ \E fn \in FileNames, v \in 0..MaxVersion :
          DeleteDocument(fn, v) /\ UNCHANGED outsideStorage

SpecStorage == Init /\ [][NextStorage]_vars

\* The updater: update_application with the migrations it runs.
NextUpdate ==
    \/ \E p, b, f, c, d \in BOOLEAN :
          UpdateApplication(p, b, f, c, d) /\ UNCHANGED << migVars, outsideUpdate >>
    \/ \E discFails \in BOOLEAN : UpdateRunMigrations(discFails) /\ UNCHANGED outsideUpdate
    \/ \E upRaises \in BOOLEAN : UpdateCliApply(upRaises) /\ UNCHANGED outsideUpdate
    \/ UpdateMigrationsDone /\ UNCHANGED << migVars, outsideUpdate >>
    \/ \E copyRaises \in BOOLEAN : UpdateRollback(copyRaises) /\ UNCHANGED outsideUpdate

SpecUpdate == Init /\ [][NextUpdate]_vars

\* The backup files of the BackupService and their retention.
NextRetention ==
    \/ CreateBackup /\ UNCHANGED outsideKeep
    \/ \E n \in 1..MaxKeep : UpdateMaxBackups(n) /\ UNCHANGED outsideKeep
    \/ \E k \in {NoKeep} \cup 0..MaxKeep : CleanupOldBackups(k) /\ UNCHANGED outsideKeep

SpecRetention == Init /\ [][NextRetention]_vars

\* The main window of the CustomTkinter application.
NextWindow ==
    \/ EditView /\ UNCHANGED outsideWin
    \/ \E cls \in ViewClasses, response \in {"save", "discard", "cancel"},
          checkRaises, promptRaises, saveRaises \in BOOLEAN :
          SwitchView(cls, response, checkRaises, promptRaises, saveRaises)
          /\ UNCHANGED outsideWin

SpecWindow == Init /\ [][NextWindow]_vars

\* The names recorded by the migration manager.
NextNaming ==
    \E S \in SUBSET MigrationObjects, i \in 1..Cardinality(MigrationObjects) :
        PerformMigrationRecord(S, i) /\ UNCHANGED outsideName

SpecNaming == Init /\ [][NextNaming]_vars

\* The backup logger.
NextLogger ==
    \/ \E t \in EventTypes : LogEvent(t) /\ UNCHANGED outsideLog
    \/ GetStatistics /\ UNCHANGED outsideLog

SpecLogger == Init /\ [][NextLogger]_vars

\* The navigation handler of the Flet page.
NextNav ==
    \/ \E route \in Routes : Navigate(route) /\ UNCHANGED outsideNav
    \/ GoBack /\ UNCHANGED outsideNav

SpecNav == Init /\ [][NextNav]_vars

\* ----------------------------------------------------------- properties
DiscoveredNames == { m.name : m \in Discovered }

LogIdx == 1..Len(log)

FullSuccess == {"success", "all_completed"}

RunFailed == pc = "idle" /\ ~result.ok /\ result.msg # "none"

C2_Idempotent ==
    /\ \A k \in LogIdx :
          log[k].op = "up" =>
             /\ log[k].name \notin LedgerNames(startLedger)
             /\ \A j \in LogIdx : (log[j].op = "up" /\ log[j].name = log[k].name) => j = k
    /\ prevResult.msg \in FullSuccess =>
          /\ ledger = startLedger
          /\ \A k \in LogIdx : log[k].op # "up"
          /\ pc = "idle"

\* A run that came directly after a fully successful one and has returned.
C2_Witness ==
    /\ prevResult.msg \in FullSuccess
    /\ pc = "idle"
    /\ result.msg # "none"
    /\ LedgerNames(ledger) = DiscoveredNames

\* C3: check_and_migrate(auto_migrate=True) never returns success while a
\* discovered migration is missing from the ledger.
C3_NoSuccessWhilePending ==
    (pc = "idle" /\ kind = "manager" /\ auto /\ result.ok)
        => DiscoveredNames \subseteq LedgerNames(ledger)

\* C4: a migration name appears at most once in the ledger.
C4_NameAtMostOnce ==
    \A i, j \in 1..Len(ledger) : ledger[i].name = ledger[j].name => i = j

\* A run of the manager in which run_migration recorded a name and
\* record_migration was then called with the same name, after an earlier run.
C4_Witness ==
    /\ kind = "manager"
    /\ runs >= 2
    /\ \E j, k \in LogIdx :
          /\ j < k
          /\ log[j].op = "record" /\ log[k].op = "record"
          /\ log[j].name = log[k].name

\* C5: within a run the pending list is in ascending lexicographic order of
\* name, and when pre_check() or up() of a pending b is invoked, every
\* pending a with name(a) < name(b) has had its up() return and its name
\* recorded earlier in the run.
C5_LexicographicOrder ==
    /\ \A i, j \in 1..Len(pending) :
          i < j => LexLess(pending[i].name, pending[j].name)
    /\ \A k \in LogIdx :
          log[k].op \in {"pre_check", "up"} =>
             \A i \in 1..Len(pending) :
                LexLess(pending[i].name, log[k].name) =>
                   \E j1, j2 \in 1..(k - 1) :
                      /\ j1 < j2
                      /\ log[j1] = Ev("up", pending[i].name, TRUE)
                      /\ log[j2] = Ev("record", pending[i].name, TRUE)

\* A run with three pending migrations that has reached up() of the last.
C5_Witness ==
    /\ Len(pending) = 3
    /\ \E k \in LogIdx : log[k].op = "up" /\ log[k].name = pending[3].name

\* C6: a pre_check() that returns false ends the run there: it is the last
\* call of the run, up() of that migration was not invoked in the run, and
\* the result is (False, "Migration pre-check failed: <name>").
C6_PreCheckAborts ==
    \A k \in LogIdx :
       (log[k].op = "pre_check" /\ ~log[k].ok) =>
          /\ k = Len(log)
          /\ pc = "idle"
          /\ result = Msg(FALSE, "pre_check_failed", log[k].name, 0)
          /\ \A j \in LogIdx : ~(log[j].op = "up" /\ log[j].name = log[k].name)
          /\ log[k].name \notin LedgerNames(ledger)

\* A pre-check failed on the second migration of a run or later.
C6_Witness ==
    \E k \in LogIdx :
       /\ log[k].op = "pre_check" /\ ~log[k].ok
       /\ idx >= 2
       /\ idx < Len(pending)

\* C7: an up() that raises ends the run there: it is the last call of the
\* run and the result is (False, message naming that migration).
C7_UpFailureAborts ==
    \A k \in LogIdx :
       (log[k].op = "up" /\ ~log[k].ok) =>
          /\ k = Len(log)
          /\ pc = "idle"
          /\ result = Msg(FALSE, "migration_failed", log[k].name, 0)

\* up() raised in the manager with a later migration still pending.
C7_Witness ==
    /\ kind = "manager"
    /\ idx < Len(pending)
    /\ \E k \in LogIdx : log[k].op = "up" /\ ~log[k].ok

\* C8: a post_check() that fails ends the run there with
\* (False, "Migration post-check failed: <name>"), while the migration
\* counts as applied: its up() returned, its name is in the ledger and the
\* next discovery does not offer it as pending.
C8_PostCheckFailure ==
    \A k \in LogIdx :
       (log[k].op = "post_check" /\ ~log[k].ok) =>
          /\ k = Len(log)
          /\ pc = "idle"
          /\ result = Msg(FALSE, "post_check_failed", log[k].name, 0)
          /\ log[k].name \in upOk
          /\ log[k].name \in LedgerNames(ledger)
          /\ \A i \in 1..Len(get_pending_migrations(ledger)) :
                get_pending_migrations(ledger)[i].name # log[k].name

\* A post-check failed with a later migration still pending.
C8_Witness ==
    /\ idx < Len(pending)
    /\ \E k \in LogIdx : log[k].op = "post_check" /\ ~log[k].ok

IsPrefix(s, t) ==
    /\ Len(s) <= Len(t)
    /\ \A k \in 1..Len(s) : s[k] = t[k]

\* C9: no step removes or changes a ledger row, and every row recorded by
\* the current run carries that run's batch number, also after the run
\* has failed.
C9_NothingUnrecorded ==
    [][ /\ IsPrefix(ledger, ledger')
        /\ \A k \in 1..Len(ledger') :
              ledger'[k].run = runs' => ledger'[k].batch = batch' ]_vars

\* A run that failed after it had recorded a migration, on a ledger that
\* already held rows of an earlier run.
C9_Witness ==
    /\ RunFailed
    /\ Len(startLedger) > 0
    /\ Len(ledger) > Len(startLedger)

\* C10: the rows recorded by the current run carry the highest batch number
\* of the ledger before the run plus one, and two rows share a batch number
\* exactly when the same run recorded them.
C10_BatchPerRun ==
    /\ \A k \in 1..Len(ledger) :
          ledger[k].run = runs =>
             /\ \A j \in 1..Len(startLedger) : startLedger[j].batch < ledger[k].batch
             /\ \/ ledger[k].batch = 1 /\ Len(startLedger) = 0
                \/ \E j \in 1..Len(startLedger) :
                      startLedger[j].batch + 1 = ledger[k].batch
    /\ \A i, j \in 1..Len(ledger) :
          (ledger[i].run = ledger[j].run) <=> (ledger[i].batch = ledger[j].batch)

\* Two rows of one run next to a row of another run.
C10_Witness ==
    \E i, j, k \in 1..Len(ledger) :
       /\ i # j
       /\ ledger[i].run = ledger[j].run
       /\ ledger[k].run # ledger[i].run

\* C11: a backup made by the scheduler thread never executes while a
\* migration run (_perform_migration) is in progress.
C11_NoOverlap ==
    ~(schedBackup # 0 /\ kind = "manager" /\ pc # "idle")

\* C12: a failure inside check_and_migrate is answered with (False, message):
\* when the discovery of pending migrations is reached and raises while
\* unapplied migrations exist, the call does not answer success.
C12_FailureIsReported ==
    [][ \A a, f1, f2, f4, f5 \in BOOLEAN :
          ( /\ CheckAndMigrate(a, f1, f2, TRUE, f4, f5)
            /\ result'.msg # "up_to_date"
            /\ get_pending_migrations(ledger) # << >> )
          => ~result'.ok ]_vars

C13_LockedAtFifthFailure ==
    /\ failCount < 5 => ~is_locked(user, now).ret
    /\ failCount >= 5
       => /\ user.locked_until = lastFailAt + 30
          /\ now = lastFailAt => is_locked(user, now).ret

\* The fifth failed login has just been recorded.
C13_Witness ==
    /\ failCount = 5
    /\ lastFailAt = now
    /\ user.locked_until = now + 30
    /\ is_locked(user, now).ret

\* C14: while the account is locked, authenticate() fails for every
\* password, returns no user and leaves failed_login_attempts and
\* locked_until as they were.
C14_LockedAccountRejected ==
    [][ \A pwOk \in BOOLEAN :
          ( /\ Authenticate(TRUE, pwOk)
            /\ user.locked_until # NoTime
            /\ now < user.locked_until )
          => /\ ~authOut'.success
             /\ ~authOut'.hasUser
             /\ user'.failed_login_attempts = user.failed_login_attempts
             /\ user'.locked_until = user.locked_until ]_vars

\* authenticate() was called with the correct password on a locked, active
\* account.
C14_Witness ==
    /\ authOut.op = "authenticate"
    /\ authOut.wasLocked
    /\ authOut.pwOk
    /\ authOut.error = "locked"
    /\ user.locked_until # NoTime
    /\ now < user.locked_until

\* C15: login() raises AccountLockedError when the account is locked and
\* InvalidCredentialsError only for an unknown user or a wrong password.
C15_LoginErrors ==
    authOut.op = "login"
    => /\ authOut.wasLocked /\ authOut.error = "locked"
          => authOut.raised = "AccountLockedError"
       /\ authOut.raised = "InvalidCredentialsError"
          => authOut.error = "invalid"

\* C16: is_authenticated() is true exactly when a session was created, was
\* not ended since and has been inactive for less than the timeout;
\* get_current_user() is None otherwise.
C16_AuthenticatedIffLiveSession ==
    /\ is_authenticated(current_session, timeout_minutes, now)
       <=> (sessOpen /\ now - sessActive < timeout_minutes)
    /\ ~sessOpen => get_current_user(current_session, timeout_minutes, now) = 0

\* A session that was created and not ended has been inactive for exactly
\* the timeout of 30 minutes.
C16_Witness ==
    /\ sessOpen
    /\ timeout_minutes = 30
    /\ now - sessActive = 30
    /\ ~is_authenticated(current_session, timeout_minutes, now)

\* C18: store_document() without a version gives the first stored copy of a
\* document version 1 and each later copy one more than the highest version
\* stored for that same document.
C18_AutoVersion ==
    storeOut.auto
    => storeOut.version = IF storeOut.before = {} THEN 1
                          ELSE Max(storeOut.before) + 1

\* C19: get_document_history() returns exactly the stored versions of the
\* file name asked for, in ascending order of version.
C19_HistoryOfThatFile ==
    /\ Range(histOut.result) = histOut.stored
    /\ \A i, j \in 1..Len(histOut.result) :
          i < j => histOut.result[i].version <= histOut.result[j].version

\* C20: after navigate(A) and navigate(B) for two registered routes,
\* go_back() does not fail and view A is displayed again.
C20_GoBackReturns ==
    LET n == Len(navOut.before)
    IN  ( /\ navOut.op = "go_back"
          /\ n >= 2
          /\ navOut.before[n] \in Registered
          /\ navOut.before[n - 1] \in Registered
          /\ visited = navOut.before )
        => /\ navOut.raised = "none"
           /\ views # << >>
           /\ views[Len(views)] = navOut.before[n - 1]

\* C23: the stored version becomes APP_VERSION only after all pending
\* migrations of a run have succeeded: a step that writes APP_VERSION leaves
\* no discovered migration unapplied.
C23_VersionAfterMigrations ==
    [][ (appVersion # APP_VERSION /\ appVersion' = APP_VERSION)
        => get_pending_migrations(ledger') = << >> ]_vars

\* C24: in a run of _perform_migration the pre-migration backup comes before
\* the first pre_check() or up(); when creating it fails, nothing is applied
\* or recorded and the run answers (False, message).
C24_BackupFirst ==
    kind = "manager"
    => /\ pc # "idle" => log # << >>
       /\ \A i \in 1..Len(log) :
             log[i].op \in {"pre_check", "up", "record", "post_check"}
             => i > 1 /\ log[1] = Ev("backup", NoName, TRUE)
       /\ (log # << >> /\ log[1] = Ev("backup", NoName, FALSE))
          => /\ Len(log) = 1
             /\ ledger = startLedger
             /\ pc = "idle"
             /\ ~result.ok

\* A run with pending migrations whose backup failed has returned.
C24_Witness ==
    /\ kind = "manager"
    /\ log = << Ev("backup", NoName, FALSE) >>
    /\ pending # << >>
    /\ pc = "idle"
    /\ result = Msg(FALSE, "exception", NoName, 0)

\* C25: a migration whose pre_check() finds its work already present is
\* skipped without blocking the run: the pre_check of the first migration
\* (it has pre_check and post_check, as AddContractHistory) answering False
\* because the contracts table exists does not end the run.
C25_SkipDoesNotBlock ==
    [][ ( /\ pc = "pre_check"
          /\ Current(pending, idx).hasPre
          /\ PreCheck(AddContractHistory_pre_check(TRUE)) )
        => pc' # "idle" ]_vars

\* C21: when a backup was created and update_application returns False
\* after a failed download or migration, the database equals the database
\* before the update started.
C21_RollbackRestores ==
    (upc = "idle" /\ updOut.ret = "false" /\ updOut.backup)
    => /\ ledger = dbBefore.ledger
       /\ schema = dbBefore.schema

\* C22: after cleanup_old_backups(keep_count) at most keep_count backups
\* (max_backups when keep_count is None) remain, and the call returns the
\* number of backups it deleted.
C22_CleanupKeepsLimit ==
    cleanOut.called
    => /\ cleanOut.after <= cleanOut.keep
       /\ cleanOut.ret = cleanOut.before - cleanOut.after

\* C26: an expired session is never revived: refresh_session() on it raises
\* AuthenticationError and leaves last_activity alone, and once
\* get_current_user() is None it stays None until create_session().
C26_ExpiredStaysExpired ==
    [][ /\ ( /\ current_session # NoSession
             /\ is_expired(current_session, timeout_minutes, now)
             /\ RefreshSession )
           => /\ sessOut' = "AuthenticationError"
              /\ current_session' = current_session
        /\ ( /\ get_current_user(current_session, timeout_minutes, now) = 0
             /\ get_current_user(current_session', timeout_minutes, now') # 0 )
           => CreateSession ]_vars

\* refresh_session() was refused on a session that expired after 30 minutes
\* and is still held.
C26_Witness ==
    /\ sessOut = "AuthenticationError"
    /\ timeout_minutes = 30
    /\ current_session # NoSession
    /\ now - current_session.last_activity >= 30

\* C29: through authenticate() calls with right and wrong passwords
\* failed_login_attempts never exceeds 5, and 5 or more attempts imply that
\* locked_until is set.
C29_AttemptsBounded ==
    /\ user.failed_login_attempts <= 5
    /\ user.failed_login_attempts >= 5 => user.locked_until # NoTime

\* The fifth wrong password has just been given to authenticate().
C29_Witness ==
    /\ user.failed_login_attempts = 5
    /\ user.locked_until = now + 30
    /\ authOut.op = "authenticate"
    /\ authOut.error = "invalid"
    /\ authOut.known

\* C27: switch_view never discards detected unsaved changes without the
\* user's consent: the old view is replaced only after the user answered
\* 'discard', or answered 'save' and the save succeeded.
C27_NoSilentDiscard ==
    (switchOut.switched /\ switchOut.detected)
    => \/ switchOut.answer = "discard"
       \/ switchOut.answer = "save" /\ switchOut.saved

\* Timestamp of the most recent event of the log whose type is in T, NoStamp
\* when there is none.
LastStamp(events, T) ==
    LET I == { i \in 1..Len(events) : events[i].event_type \in T }
    IN  IF I = {} THEN NoStamp ELSE events[Max(I)].timestamp

\* C30: get_statistics() reports last_successful_backup as the timestamp of
\* the most recent success event whenever the log holds one, and last_backup
\* as the timestamp of the most recent success or failure event.
C30_LastBackupStamps ==
    statsOut.called
    => /\ statsOut.stats.last_successful_backup
             = LastStamp(statsOut.log, {"success"})
       /\ statsOut.stats.last_backup
             = LastStamp(statsOut.log, {"success", "failure"})

\* C28: a migration is recorded under one name whatever its position in the
\* pending list, and two different migrations are never recorded under the
\* same name.
C28_StableName ==
    \A a, b \in named : (a.mig = b.mig) <=> (a.name = b.name)

====
